---------------------------- MODULE Spec2Model ----------------------------
(***************************************************************************)
(* State-machine model of crop_ply_spatial.py: analyze_point_cloud_bounds  *)
(* and crop_by_bounds over a PLY file (ASCII header lines followed by a    *)
(* little-endian binary body), with write_ply_file producing the output.   *)
(*                                                                         *)
(* A header line is the sequence of its whitespace-separated tokens (what  *)
(* line.split() yields); the body is a sequence of bytes 0..255.  Field    *)
(* values are integers: the float and double codecs below are the IEEE-754 *)
(* rules restricted to bit patterns of integral values, which is the only  *)
(* kind of value the input files of this model hold.                       *)
(*                                                                         *)
(* crop_by_bounds is modelled for center_crop_ratio=None and               *)
(* interactive=False (explicit ranges or the sampled default); the other   *)
(* two range policies need floating-point arithmetic and are left out.     *)
(* chunk_size (50000 in the source) and sample_size (default 10000) are    *)
(* inputs of the model so that several chunks and partial samples occur    *)
(* with a handful of records.                                              *)
(***************************************************************************)
EXTENDS Integers, Sequences, FiniteSets, TLC

\* ----- bounds of the model -------------------------------------------------
MaxRecords == 3        \* records physically present in a generated body
MaxDeclared == 4       \* largest declared "element vertex" count
MaxChunk == 2          \* chunk sizes 1..MaxChunk
MaxSample == 2         \* sample-size ceilings 1..MaxSample
MaxEofReads == 2       \* readline() calls past end-of-file that are tracked

None == <<>>            \* Python None for an omitted range or observation
NoFormat == "None"      \* format_type when the header has no format line

\* ----- small helpers -------------------------------------------------------
Min(a, b) == IF a <= b THEN a ELSE b
Max(a, b) == IF a >= b THEN a ELSE b
Abs(a) == IF a < 0 THEN -a ELSE a

RECURSIVE Pow2(_)
Pow2(n) == IF n = 0 THEN 1 ELSE 2 * Pow2(n - 1)

\* floor(log2 a) for a >= 1
RECURSIVE Log2(_)
Log2(a) == IF a < 2 THEN 0 ELSE 1 + Log2(a \div 2)

\* concatenation of the first k sequences of ss, and of all of them
RECURSIVE FlattenUpTo(_, _)
FlattenUpTo(ss, k) == IF k = 0 THEN <<>> ELSE FlattenUpTo(ss, k - 1) \o ss[k]
Flatten(ss) == FlattenUpTo(ss, Len(ss))

\* ----- decimal text of the record count (int(...) and f'{n}') ---------------
DecimalText == <<"0", "1", "2", "3", "4", "5", "6", "7", "8", "9", "10", "11", "12">>
FormatInt(n) == DecimalText[n + 1]
ParseInt(s) == CHOOSE n \in 0..(Len(DecimalText) - 1) : DecimalText[n + 1] = s

\* ----- struct codecs, format '<' (little endian, no padding) ---------------
\* 'B'
UnpackB(b) == b[1]
PackB(v) == <<v>>

\* 'i': 32-bit two's complement
UnpackI(b) ==
    b[1] + 256 * b[2] + 65536 * b[3]
      + 16777216 * (IF b[4] >= 128 THEN b[4] - 256 ELSE b[4])
PackI(v) ==
    LET hi == IF v < 0 THEN -((-v + 16777215) \div 16777216) ELSE v \div 16777216
        lo == v - hi * 16777216
    IN  <<lo % 256, (lo \div 256) % 256, lo \div 65536, IF hi < 0 THEN hi + 256 ELSE hi>>

\* 'f': IEEE-754 binary32, sign(1) exponent(8) fraction(23)
UnpackF(b) ==
    LET s == b[4] \div 128
        e == (b[4] % 128) * 2 + b[3] \div 128
        m == (b[3] % 128) * 65536 + b[2] * 256 + b[1]
        sig == 8388608 + m
        mag == IF e = 0 /\ m = 0 THEN 0
               ELSE IF e >= 150 THEN sig * Pow2(e - 150)
               ELSE IF e >= 127 THEN sig \div Pow2(150 - e)
               ELSE 0
    IN  IF s = 1 THEN -mag ELSE mag
PackF(v) ==
    IF v = 0 THEN <<0, 0, 0, 0>>
    ELSE LET s == IF v < 0 THEN 1 ELSE 0
             p == Log2(Abs(v))
             e == 127 + p
             m == Abs(v) * Pow2(23 - p) - 8388608
         IN  <<m % 256, (m \div 256) % 256, (e % 2) * 128 + m \div 65536, s * 128 + e \div 2>>

\* 'd': IEEE-754 binary64, sign(1) exponent(11) fraction(52); the low 32
\* fraction bits of an integral value below 2^21 are zero
UnpackD(b) ==
    LET s == b[8] \div 128
        e == (b[8] % 128) * 16 + b[7] \div 16
        m == (b[7] % 16) * 65536 + b[6] * 256 + b[5]
        sig == 1048576 + m
        mag == IF e = 0 /\ m = 0 THEN 0
               ELSE IF e >= 1043 THEN sig * Pow2(e - 1043)
               ELSE IF e >= 1023 THEN sig \div Pow2(1043 - e)
               ELSE 0
    IN  IF s = 1 THEN -mag ELSE mag
PackD(v) ==
    IF v = 0 THEN <<0, 0, 0, 0, 0, 0, 0, 0>>
    ELSE LET s == IF v < 0 THEN 1 ELSE 0
             p == Log2(Abs(v))
             e == 1023 + p
             m == Abs(v) * Pow2(20 - p) - 1048576
         IN  <<0, 0, 0, 0, m % 256, (m \div 256) % 256,
               (e % 16) * 16 + m \div 65536, s * 128 + e \div 16>>

\* struct.calcsize of one format character
CharSize(c) == CASE c = "f" -> 4 [] c = "B" -> 1 [] c = "i" -> 4 [] c = "d" -> 8

\* struct.calcsize of the first k characters, and of the whole format
RECURSIVE SizeUpTo(_, _)
SizeUpTo(fmt, k) == IF k = 0 THEN 0 ELSE SizeUpTo(fmt, k - 1) + CharSize(fmt[k])
calcsize(fmt) == SizeUpTo(fmt, Len(fmt))

UnpackChar(c, b) ==
    CASE c = "f" -> UnpackF(b) [] c = "B" -> UnpackB(b)
      [] c = "i" -> UnpackI(b) [] c = "d" -> UnpackD(b)
PackChar(c, v) ==
    CASE c = "f" -> PackF(v) [] c = "B" -> PackB(v)
      [] c = "i" -> PackI(v) [] c = "d" -> PackD(v)

\* struct.unpack(format_str, data) with len(data) = calcsize(format_str)
unpack(fmt, data) ==
    [k \in 1..Len(fmt) |->
        UnpackChar(fmt[k], SubSeq(data, SizeUpTo(fmt, k - 1) + 1, SizeUpTo(fmt, k)))]

\* struct.pack(format_str, *values)
pack(fmt, values) == Flatten([k \in 1..Len(fmt) |-> PackChar(fmt[k], values[k])])

\* ----- header codec --------------------------------------------------------
EndHeader == <<"end_header">>
EmptyLine == <<>>          \* what readline() yields at end-of-file, split

\* index of the first 'end_header' line, 0 when the file has none
RECURSIVE TerminatorIndex(_, _)
TerminatorIndex(lines, k) ==
    IF k > Len(lines) THEN 0
    ELSE IF lines[k] = EndHeader THEN k
    ELSE TerminatorIndex(lines, k + 1)

StartsWith(line, kw) == Len(line) >= 1 /\ line[1] = kw
StartsWith2(line, kw1, kw2) == Len(line) >= 2 /\ line[1] = kw1 /\ line[2] = kw2

\* parse_ply_header: the loop over the lines, from line k on; later
\* declarations overwrite earlier ones
RECURSIVE parse_ply_header_from(_, _, _)
parse_ply_header_from(header_lines, k, acc) ==
    IF k > Len(header_lines) THEN acc
    ELSE LET line == header_lines[k]
         IN  parse_ply_header_from(header_lines, k + 1,
                IF StartsWith(line, "format")
                  THEN [acc EXCEPT !.format_type = line[2]]
                ELSE IF StartsWith2(line, "element", "vertex")
                  THEN [acc EXCEPT !.vertex_count = ParseInt(line[3])]
                ELSE IF StartsWith(line, "property")
                  THEN [acc EXCEPT !.properties = Append(@, <<line[2], line[3]>>)]
                ELSE acc)

parse_ply_header(header_lines) ==
    parse_ply_header_from(header_lines, 1,
        [vertex_count |-> 0, properties |-> <<>>, format_type |-> NoFormat])

SupportedTypes == {"float", "uchar", "int", "double"}

TypeChar(prop_type) ==
    CASE prop_type = "float" -> "f" [] prop_type = "uchar" -> "B"
      [] prop_type = "int" -> "i" [] prop_type = "double" -> "d"

\* create_struct_format: one character per property of a known type, in
\* order; a property of any other type adds nothing
create_struct_format(properties) ==
    LET known(p) == p[1] \in SupportedTypes
        ks == SelectSeq(properties, known)
    IN  [k \in 1..Len(ks) |-> TypeChar(ks[k][1])]


\* ----- input files ---------------------------------------------------------
LayoutRGB ==
    << <<"float", "x">>, <<"float", "y">>, <<"float", "z">>,
       <<"uchar", "red">>, <<"uchar", "green">>, <<"uchar", "blue">> >>
LayoutMixed == << <<"int", "x">>, <<"double", "y">>, <<"float", "z">> >>
LayoutUint ==
    << <<"float", "x">>, <<"float", "y">>, <<"float", "z">>, <<"uint", "flags">> >>
LayoutTwo == << <<"float", "x">>, <<"float", "y">>, <<"uint", "z">> >>

\* the on-disk encoding of a field as the file's producer wrote it
\* (uint is a 4-byte PLY type this program does not know)
DiskChar(prop_type) == IF prop_type = "uint" THEN "i" ELSE TypeChar(prop_type)
DiskFormat(layout) == [k \in 1..Len(layout) |-> DiskChar(layout[k][1])]

\* coordinates of the records the generated files are made of
Points == { <<0, 0, 0>>, <<1, -1, 1>>, <<100, 0, 0>> }

\* a full record: the point, then fixed values for the remaining fields
Extras(layout) ==
    IF layout = LayoutRGB THEN <<255, 128, 0>>
    ELSE IF layout = LayoutUint THEN <<0>>
    ELSE <<>>
RecordOf(layout, pt) == SubSeq(pt \o Extras(layout), 1, Len(layout))

RECURSIVE SeqsUpTo(_, _)
SeqsUpTo(S, n) ==
    IF n = 0 THEN { <<>> }
    ELSE LET shorter == SeqsUpTo(S, n - 1)
         IN  shorter \cup { Append(q, e) : q \in { r \in shorter : Len(r) = n - 1 }, e \in S }

BodyOf(layout, pts) ==
    Flatten([k \in 1..Len(pts) |-> pack(DiskFormat(layout), RecordOf(layout, pts[k]))])

PropertyLines(layout) ==
    [k \in 1..Len(layout) |-> <<"property", layout[k][1], layout[k][2]>>]

\* kind: "ok", "no_terminator", "ascii", "big_endian", "no_count"
HeaderOf(kind, N, layout) ==
    << <<"ply">>,
       <<"format",
         IF kind = "ascii" THEN "ascii"
         ELSE IF kind = "big_endian" THEN "binary_big_endian"
         ELSE "binary_little_endian",
         "1.0">>,
       <<"comment", "generated">> >>
    \o (IF kind = "no_count" THEN <<>> ELSE << <<"element", "vertex", FormatInt(N)>> >>)
    \o PropertyLines(layout)
    \o (IF kind = "no_terminator" THEN <<>> ELSE <<EndHeader>>)

\* cut bytes are missing from the end of the body
MakeFile(kind, N, layout, pts, cut) ==
    LET body == BodyOf(layout, pts)
    IN  [lines |-> HeaderOf(kind, N, layout),
         body |-> IF kind = "no_terminator" THEN <<>>
                  ELSE SubSeq(body, 1, Len(body) - Min(cut, Len(body)))]

\* the concrete scenario: five records, one at (100,0,0), four in [-1,1]^3
ScenarioPoints == << <<0, 0, 0>>, <<1, -1, 1>>, <<100, 0, 0>>, <<-1, 1, 0>>, <<0, 1, -1>> >>
ScenarioFile == MakeFile("ok", 5, LayoutRGB, ScenarioPoints, 0)
UnitCube == << <<-1, 1>>, <<-1, 1>>, <<-1, 1>> >>

WellFormedFiles ==
    { MakeFile("ok", N, layout, pts, cut) :
        N \in 0..MaxDeclared, layout \in {LayoutRGB, LayoutMixed},
        pts \in SeqsUpTo(Points, MaxRecords), cut \in {0, 1} }

DefectiveFiles ==
    { MakeFile(kind, N, LayoutRGB, pts, 0) :
        kind \in {"no_terminator", "ascii", "big_endian", "no_count"},
        N \in {1, 2},
        pts \in SeqsUpTo({<<0, 0, 0>>, <<100, 0, 0>>}, 2) \ { <<>> } }
    \cup
    { MakeFile("ok", N, layout, pts, 0) :
        N \in {1, 3}, layout \in {LayoutUint, LayoutTwo},
        pts \in SeqsUpTo({<<0, 0, 0>>, <<1, -1, 1>>}, 3) \ { <<>> } }

\* the three range arguments of crop_by_bounds; None is an omitted range
RangeArgs ==
    { UnitCube,
      << <<5, 9>>, <<5, 9>>, <<5, 9>> >>,
      <<None, None, None>>,
      <<None, <<-1, 1>>, None>> }


\* ----- state ---------------------------------------------------------------
VARIABLES
    op,               \* "analyze" (--analyze-only) or "crop"
    input,            \* the input file: [lines, body]
    output,           \* the output path: [exists, lines, body]
    output0,          \* what the output path held when the program started
    args,             \* <<x_range, y_range, z_range>> as passed by the caller
    sample_size,      \* analyze_point_cloud_bounds' sample_size
    chunk_size,       \* crop_by_bounds' chunk_size
    pc,               \* position in the program
    eof_reads,        \* readline() calls made past end-of-file
    header_lines, vertex_count, properties, format_type, format_str, vertex_size,
    vertices,         \* the sample of analyze_point_cloud_bounds
    bounds_info,      \* its return value (None until computed)
    x_range, y_range, z_range,
    cropped_vertices, \* the retained set
    chunk_start,      \* loop variable of the chunk loop
    fpos,             \* read position of the filter pass, in bytes from body start
    progress,         \* last progress line: <<processed, kept>> (None before the first)
    decoded,          \* records unpacked by the filter pass so far
    body_reads,       \* records unpacked from the body by either pass
    out_opens,        \* times the output path was opened for writing
    report,           \* "Cropping results": <<original, cropped>> counts (None before)
    result,           \* "running", a return value or the exception raised
    message           \* last "Error: ..." line printed

vars == <<op, input, output, output0, args, sample_size, chunk_size, pc, eof_reads,
          header_lines, vertex_count, properties, format_type, format_str,
          vertex_size, vertices, bounds_info, x_range, y_range, z_range,
          cropped_vertices, chunk_start, fpos, progress, decoded, body_reads,
          out_opens, report, result, message>>

NoOutput == [exists |-> FALSE, lines |-> <<>>, body |-> <<>>]
StaleOutput == [exists |-> TRUE, lines |-> << <<"ply">>, EndHeader >>, body |-> <<7>>]

\* one invocation: the operation, its input and arguments, the output path
Invoke(o, f, a, c, s, out) ==
    /\ op = o
    /\ input = f
    /\ args = a
    /\ chunk_size = c
    /\ sample_size = s
    /\ output = out
    /\ output0 = out

Invocation ==
    \/ \E f \in WellFormedFiles, a \in RangeArgs, c \in 1..MaxChunk, s \in 1..MaxSample :
          Invoke("crop", f, a, c, s, NoOutput)
    \/ \E f \in WellFormedFiles, a \in RangeArgs :
          Invoke("crop", f, a, MaxChunk, MaxSample, StaleOutput)
    \/ \E f \in DefectiveFiles, a \in {UnitCube, <<None, None, None>>}, c \in {1, MaxChunk} :
          Invoke("crop", f, a, c, MaxSample, NoOutput)
    \/ \E c \in 1..MaxChunk, s \in 1..MaxSample :
          Invoke("crop", ScenarioFile, UnitCube, c, s, NoOutput)
    \/ \E f \in WellFormedFiles \cup DefectiveFiles \cup {ScenarioFile}, s \in 1..MaxSample :
          Invoke("analyze", f, <<None, None, None>>, 1, s, NoOutput)

Init ==
    /\ Invocation
    /\ pc = "analyze"
    /\ eof_reads = 0
    /\ header_lines = <<>>
    /\ vertex_count = 0
    /\ properties = <<>>
    /\ format_type = NoFormat
    /\ format_str = <<>>
    /\ vertex_size = 0
    /\ vertices = <<>>
    /\ bounds_info = None
    /\ x_range = None
    /\ y_range = None
    /\ z_range = None
    /\ cropped_vertices = <<>>
    /\ chunk_start = 0
    /\ fpos = 0
    /\ progress = None
    /\ decoded = 0
    /\ body_reads = 0
    /\ out_opens = 0
    /\ report = None
    /\ result = "running"
    /\ message = ""

\* ----- file reads ----------------------------------------------------------
\* f.read(n) at byte offset off of the body: at most n bytes, fewer at the end
ReadAt(body, off, n) == SubSeq(body, off + 1, Min(off + n, Len(body)))

\* read_ply_header when the file has a terminator: the lines up to and
\* including it; f.tell() is then the first byte of the body
read_ply_header(file) == SubSeq(file.lines, 1, TerminatorIndex(file.lines, 1))

HasTerminator(file) == TerminatorIndex(file.lines, 1) # 0

\* read_ply_header on a file without terminator: readline() returns '' at
\* end-of-file, '' is not 'end_header', and the loop goes on reading.  Each
\* step is one more readline() past the end (tracked up to MaxEofReads).
ReadPastEof ==
    /\ pc \in {"analyze", "crop_header"}
    /\ ~HasTerminator(input)
    /\ eof_reads < MaxEofReads
    /\ eof_reads' = eof_reads + 1
    /\ header_lines' = input.lines \o [k \in 1..(eof_reads + 1) |-> EmptyLine]
    /\ UNCHANGED <<op, input, output, output0, args, sample_size, chunk_size, pc,
                   vertex_count, properties, format_type, format_str,
                   vertex_size, vertices, bounds_info, x_range, y_range, z_range,
                   cropped_vertices, chunk_start, fpos, progress, decoded,
                   body_reads, out_opens, report, result, message>>

\* analyze_point_cloud_bounds, lines 62-65
AnalyzeHeader ==
    /\ pc = "analyze"
    /\ HasTerminator(input)
    /\ \E hl \in {read_ply_header(input)} :
       \E h \in {parse_ply_header(hl)} :
       \E fs \in {create_struct_format(h.properties)} :
           /\ header_lines' = hl
           /\ vertex_count' = h.vertex_count
           /\ properties' = h.properties
           /\ format_type' = h.format_type
           /\ format_str' = fs
           /\ vertex_size' = calcsize(fs)
    /\ pc' = "sample"
    /\ UNCHANGED <<op, input, output, output0, args, sample_size, chunk_size, eof_reads,
                   vertices, bounds_info, x_range, y_range, z_range,
                   cropped_vertices, chunk_start, fpos, progress, decoded,
                   body_reads, out_opens, report, result, message>>


\* ----- bounds estimator ----------------------------------------------------
\* the sampling loop, lines 77-86: indices i, i+step, ... below vertex_count
RECURSIVE SampleLoop(_, _, _, _, _, _, _, _)
SampleLoop(body, fmt, vsize, vcount, step, actual_sample_size, i, acc) ==
    IF i >= vcount \/ Len(acc) >= actual_sample_size THEN acc
    ELSE LET vertex_data == ReadAt(body, i * vsize, vsize)
         IN  IF Len(vertex_data) # vsize THEN acc
             ELSE SampleLoop(body, fmt, vsize, vcount, step, actual_sample_size,
                             i + step, Append(acc, unpack(fmt, vertex_data)))

RECURSIVE ColMin(_, _)
ColMin(vs, c) ==
    IF Len(vs) = 1 THEN vs[1][c] ELSE Min(vs[1][c], ColMin(Tail(vs), c))
RECURSIVE ColMax(_, _)
ColMax(vs, c) ==
    IF Len(vs) = 1 THEN vs[1][c] ELSE Max(vs[1][c], ColMax(Tail(vs), c))

\* the returned dictionary ('center' is used by the center-crop policy only
\* and is not carried)
BoundsOf(vs, vcount, props) ==
    LET min_bounds == [c \in 1..3 |-> ColMin(vs, c)]
        max_bounds == [c \in 1..3 |-> ColMax(vs, c)]
    IN  [min_bounds |-> min_bounds, max_bounds |-> max_bounds,
         ranges |-> [c \in 1..3 |-> max_bounds[c] - min_bounds[c]],
         vertex_count |-> vcount, properties |-> props]

\* analyze_point_cloud_bounds, lines 67-116, and the caller's reaction to its
\* return value (crop_by_bounds lines 123-125, main lines 304-306)
AnalyzeSample ==
    /\ pc = "sample"
    /\ \E actual_sample_size \in {Min(sample_size, vertex_count)} :
           IF actual_sample_size = 0
           THEN \* vertex_count // actual_sample_size
                /\ result' = "ZeroDivisionError"
                /\ pc' = "done"
                /\ UNCHANGED <<vertices, bounds_info, body_reads, message>>
           ELSE \E step \in {Max(1, vertex_count \div actual_sample_size)} :
                \E vs \in {SampleLoop(input.body, format_str, vertex_size,
                                      vertex_count, step, actual_sample_size, 0, <<>>)} :
                    /\ vertices' = vs
                    /\ body_reads' = body_reads + Len(vs)
                    /\ IF vs = <<>>
                       THEN /\ message' = "Error: No vertices read"
                            /\ result' = IF op = "crop" THEN "False" ELSE "None"
                            /\ pc' = "done"
                            /\ UNCHANGED bounds_info
                       ELSE IF Len(format_str) < 3
                       THEN \* min_bounds[2] of an array with fewer than 3 columns
                            /\ result' = "IndexError"
                            /\ pc' = "done"
                            /\ UNCHANGED <<bounds_info, message>>
                       ELSE /\ bounds_info' = BoundsOf(vs, vertex_count, properties)
                            /\ result' = IF op = "crop" THEN "running" ELSE "bounds"
                            /\ pc' = IF op = "crop" THEN "ranges" ELSE "done"
                            /\ UNCHANGED message
    /\ UNCHANGED <<op, input, output, output0, args, sample_size, chunk_size, eof_reads,
                   header_lines, vertex_count, properties, format_type,
                   format_str, vertex_size, x_range, y_range, z_range,
                   cropped_vertices, chunk_start, fpos, progress, decoded,
                   out_opens, report>>

\* ----- crop_by_bounds ------------------------------------------------------
\* lines 157-162: "x_range or [min_b[0], max_b[0]]"
RangeOrDefault(arg, lo, hi) == IF arg # None THEN arg ELSE <<lo, hi>>

CropRanges ==
    /\ pc = "ranges"
    /\ LET min_b == bounds_info.min_bounds
           max_b == bounds_info.max_bounds
       IN  /\ x_range' = RangeOrDefault(args[1], min_b[1], max_b[1])
           /\ y_range' = RangeOrDefault(args[2], min_b[2], max_b[2])
           /\ z_range' = RangeOrDefault(args[3], min_b[3], max_b[3])
    /\ pc' = "crop_header"
    /\ UNCHANGED <<op, input, output, output0, args, sample_size, chunk_size, eof_reads,
                   header_lines, vertex_count, properties, format_type,
                   format_str, vertex_size, vertices, bounds_info,
                   cropped_vertices, chunk_start, fpos, progress, decoded,
                   body_reads, out_opens, report, result, message>>

\* lines 170-181: the header is read again and the file positioned at the body
CropHeader ==
    /\ pc = "crop_header"
    /\ HasTerminator(input)
    /\ \E hl \in {read_ply_header(input)} :
       \E h \in {parse_ply_header(hl)} :
       \E fs \in {create_struct_format(h.properties)} :
           /\ header_lines' = hl
           /\ vertex_count' = h.vertex_count
           /\ properties' = h.properties
           /\ format_type' = h.format_type
           /\ format_str' = fs
           /\ vertex_size' = calcsize(fs)
           /\ pc' = IF 0 < h.vertex_count THEN "chunk" ELSE "finish"
    /\ cropped_vertices' = <<>>
    /\ chunk_start' = 0
    /\ fpos' = 0
    /\ UNCHANGED <<op, input, output, output0, args, sample_size, chunk_size, eof_reads,
                   vertices, bounds_info, x_range, y_range, z_range, progress,
                   decoded, body_reads, out_opens, report, result, message>>


\* lines 184-185: number of records the chunk starting at chunk_start asks for
ChunkCountWhole(cstart, csize, vcount) == csize
ChunkCount(cstart, csize, vcount) == Min(cstart + csize, vcount) - cstart

\* lines 187-193: read up to count records from position pos; a short read
\* consumes what is left of the file and ends the chunk
RECURSIVE ReadChunk(_, _, _, _, _, _)
ReadChunk(body, fmt, vsize, pos, count, acc) ==
    IF count = 0 THEN [chunk_vertices |-> acc, pos |-> pos]
    ELSE LET vertex_data == ReadAt(body, pos, vsize)
         IN  IF Len(vertex_data) # vsize
             THEN [chunk_vertices |-> acc, pos |-> pos + Len(vertex_data)]
             ELSE ReadChunk(body, fmt, vsize, pos + vsize, count - 1,
                            Append(acc, unpack(fmt, vertex_data)))

\* lines 203-205: the inclusion predicate on the first three columns
maskOpenAbove(v, xr, yr, zr) ==
    /\ v[1] >= xr[1] /\ v[1] < xr[2]
    /\ v[2] >= yr[1] /\ v[2] < yr[2]
    /\ v[3] >= zr[1] /\ v[3] < zr[2]
mask(v, xr, yr, zr) ==
    /\ v[1] >= xr[1] /\ v[1] <= xr[2]
    /\ v[2] >= yr[1] /\ v[2] <= yr[2]
    /\ v[3] >= zr[1] /\ v[3] <= zr[2]

Filtered(chunk_vertices, xr, yr, zr) ==
    LET keep(v) == mask(v, xr, yr, zr) IN SelectSeq(chunk_vertices, keep)

\* one iteration of the chunk loop, lines 183-214
CropChunk ==
    /\ pc = "chunk"
    /\ \E chunk_end \in {Min(chunk_start + chunk_size, vertex_count)} :
       \E chunk_count \in {ChunkCount(chunk_start, chunk_size, vertex_count)} :
       \E rd \in {ReadChunk(input.body, format_str, vertex_size, fpos, chunk_count, <<>>)} :
       \E kept \in {cropped_vertices
                      \o Filtered(rd.chunk_vertices, x_range, y_range, z_range)} :
           /\ fpos' = rd.pos
           /\ IF rd.chunk_vertices = <<>>
              THEN /\ pc' = "finish"
                   /\ UNCHANGED <<cropped_vertices, chunk_start, progress,
                                  decoded, body_reads>>
              ELSE /\ cropped_vertices' = kept
                   /\ progress' = <<Min(chunk_end, vertex_count), Len(kept)>>
                   /\ decoded' = decoded + Len(rd.chunk_vertices)
                   /\ body_reads' = body_reads + Len(rd.chunk_vertices)
                   /\ chunk_start' = chunk_start + chunk_size
                   /\ pc' = IF chunk_start + chunk_size < vertex_count
                              THEN "chunk" ELSE "finish"
    /\ UNCHANGED <<op, input, output, output0, args, sample_size, chunk_size, eof_reads,
                   header_lines, vertex_count, properties, format_type,
                   format_str, vertex_size, vertices, bounds_info,
                   x_range, y_range, z_range, out_opens, report, result, message>>

\* the whole chunk loop, lines 183-214, run from chunk cstart at position pos
\* with chunk size csize on the current file, layout and ranges
RECURSIVE FilterPass(_, _, _, _)
FilterPass(csize, cstart, pos, acc) ==
    IF cstart >= vertex_count THEN acc
    ELSE LET rd == ReadChunk(input.body, format_str, vertex_size, pos,
                             ChunkCount(cstart, csize, vertex_count), <<>>)
         IN  IF rd.chunk_vertices = <<>> THEN acc
             ELSE FilterPass(csize, cstart + csize, rd.pos,
                             acc \o Filtered(rd.chunk_vertices, x_range, y_range, z_range))

\* ----- file writer ---------------------------------------------------------
\* f'{v:.3f}' for the range ends that occur
Fixed3 ==
    [v \in {-2, -1, 0, 1, 2, 5, 9, 100} |->
        CASE v = -2 -> "-2.000" [] v = -1 -> "-1.000" [] v = 0 -> "0.000"
          [] v = 1 -> "1.000" [] v = 2 -> "2.000" [] v = 5 -> "5.000"
          [] v = 9 -> "9.000" [] v = 100 -> "100.000"]

\* lines 230-234: the provenance comments, as token sequences
Comments(vcount, kept, xr, yr, zr) ==
    << <<"Spatially", "cropped", "from", "input_path">>,
       <<"X", "range:", Fixed3[xr[1]], Fixed3[xr[2]]>>,
       <<"Y", "range:", Fixed3[yr[1]], Fixed3[yr[2]]>>,
       <<"Z", "range:", Fixed3[zr[1]], Fixed3[zr[2]]>>,
       <<"Original:", FormatInt(vcount), "Cropped:", FormatInt(kept)>> >>

\* lines 266-275: the per-field conversion of one value before packing
ConvertedMod255(prop_type, v) ==
    CASE prop_type = "float" -> v
      [] prop_type = "uchar" -> v % 255
      [] prop_type = "int" -> v
      [] prop_type = "double" -> v
      [] OTHER -> v
Converted(prop_type, v) ==
    CASE prop_type = "float" -> v
      [] prop_type = "uchar" -> v % 256
      [] prop_type = "int" -> v
      [] prop_type = "double" -> v
      [] OTHER -> v

\* lines 241-257: the header write_ply_file emits
WrittenHeader(n, props, comments) ==
    << <<"ply">>, <<"format", "binary_little_endian", "1.0">> >>
    \o [k \in 1..Len(comments) |-> <<"comment">> \o comments[k]]
    \o << <<"element", "vertex", FormatInt(n)>> >>
    \o PropertyLines(props)
    \o <<EndHeader>>

\* write_ply_file: the file it leaves and whether it raised.  A vertex has one
\* value per recognised property, so with any other property in the list
\* vertex[i] runs past its end on the first vertex, after the header is out.
write_ply_file(vs, props, comments) ==
    LET fmt == create_struct_format(props)
        raises == vs # <<>> /\ Len(props) > Len(vs[1])
        conv(vertex) == [i \in 1..Len(props) |-> Converted(props[i][1], vertex[i])]
    IN  [file |-> [exists |-> TRUE,
                   lines |-> WrittenHeader(Len(vs), props, comments),
                   body |-> IF raises THEN <<>>
                            ELSE Flatten([k \in 1..Len(vs) |-> pack(fmt, conv(vs[k]))])],
         raised |-> raises]

\* lines 216-237, without the check for an empty retained set
CropFinishAlwaysWrites ==
    /\ pc = "finish"
    /\ pc' = "done"
    /\ \E w \in {write_ply_file(cropped_vertices, properties,
                      Comments(vertex_count, Len(cropped_vertices),
                               x_range, y_range, z_range))} :
           /\ report' = <<vertex_count, Len(cropped_vertices)>>
           /\ output' = w.file
           /\ out_opens' = out_opens + 1
           /\ result' = IF w.raised THEN "IndexError" ELSE "True"
           /\ UNCHANGED message
    /\ UNCHANGED <<op, input, output0, args, sample_size, chunk_size, eof_reads,
                   header_lines, vertex_count, properties, format_type,
                   format_str, vertex_size, vertices, bounds_info,
                   x_range, y_range, z_range, cropped_vertices, chunk_start,
                   fpos, progress, decoded, body_reads>>

\* lines 216-237
CropFinish ==
    /\ pc = "finish"
    /\ pc' = "done"
    /\ IF cropped_vertices = <<>>
       THEN /\ message' = "Error: No vertices remain after cropping!"
            /\ result' = "False"
            /\ UNCHANGED <<output, out_opens, report>>
       ELSE \E w \in {write_ply_file(cropped_vertices, properties,
                          Comments(vertex_count, Len(cropped_vertices),
                                   x_range, y_range, z_range))} :
                /\ report' = <<vertex_count, Len(cropped_vertices)>>
                /\ output' = w.file
                /\ out_opens' = out_opens + 1
                /\ result' = IF w.raised THEN "IndexError" ELSE "True"
                /\ UNCHANGED message
    /\ UNCHANGED <<op, input, output0, args, sample_size, chunk_size, eof_reads,
                   header_lines, vertex_count, properties, format_type,
                   format_str, vertex_size, vertices, bounds_info,
                   x_range, y_range, z_range, cropped_vertices, chunk_start,
                   fpos, progress, decoded, body_reads>>

Next ==
    \/ ReadPastEof
    \/ AnalyzeHeader
    \/ AnalyzeSample
    \/ CropRanges
    \/ CropHeader
    \/ CropChunk
    \/ CropFinish

Spec == Init /\ [][Next]_vars


\* ----- what the input file declares and holds ------------------------------
Declared == parse_ply_header(input.lines)

LittleEndian == "binary_little_endian"

\* byte width of a field type of the format
FieldWidth(t) == CASE t = "float" -> 4 [] t = "uchar" -> 1 [] t = "int" -> 4
                   [] t = "double" -> 8 [] OTHER -> 0

RECURSIVE StrideUpTo(_, _)
StrideUpTo(props, k) ==
    IF k = 0 THEN 0 ELSE StrideUpTo(props, k - 1) + FieldWidth(props[k][1])
StrideOf(props) == StrideUpTo(props, Len(props))

HasUnsupportedType == \E k \in 1..Len(Declared.properties) :
                          Declared.properties[k][1] \notin SupportedTypes

\* a file of the format: terminated header, the supported encoding, known
\* field types, the three coordinates first
Supported ==
    /\ HasTerminator(input)
    /\ Declared.format_type = LittleEndian
    /\ ~HasUnsupportedType
    /\ Len(Declared.properties) >= 3

\* number of complete records in the body and the k-th of them
CompleteRecords == Len(input.body) \div StrideOf(Declared.properties)
InputRecord(k) ==
    LET w == StrideOf(Declared.properties)
    IN  unpack(create_struct_format(Declared.properties),
               SubSeq(input.body, (k - 1) * w + 1, k * w))
InputRecords(n) == [k \in 1..n |-> InputRecord(k)]

InClosedBox(v) ==
    /\ x_range[1] <= v[1] /\ v[1] <= x_range[2]
    /\ y_range[1] <= v[2] /\ v[2] <= y_range[2]
    /\ z_range[1] <= v[3] /\ v[3] <= z_range[2]

Streamed == InputRecords(Min(Declared.vertex_count, CompleteRecords))
ExpectedRetained == SelectSeq(Streamed, InClosedBox)

FilterOver == pc \in {"finish", "done"} /\ x_range # None
Untouched == output = output0 /\ out_opens = 0

\* ----- claims --------------------------------------------------------------

\* C1: once the filter pass of a crop is over, the retained set is exactly the
\* records among the first min(N, m) of the input that lie in the closed box
\* of the three ranges, in input order; a crop that never got to filter had
\* no record to stream; a non-empty retained set makes the crop succeed and
\* report <<N, retained>> even when the body is shorter than declared; the
\* five-record scenario cropped to [-1,1]^3 reports <<5, 4>>.
C1_CropRetainsClosedBox ==
    /\ (op = "crop" /\ Supported /\ pc \in {"finish", "done"}) =>
          IF x_range = None
          THEN /\ cropped_vertices = <<>>
               /\ Min(Declared.vertex_count, CompleteRecords) = 0
          ELSE /\ cropped_vertices = ExpectedRetained
               /\ (pc = "done" /\ ExpectedRetained # <<>>) =>
                     /\ result = "True"
                     /\ report = <<Declared.vertex_count, Len(ExpectedRetained)>>
    /\ (input = ScenarioFile /\ args = UnitCube /\ op = "crop" /\ pc = "done") =>
          /\ result = "True"
          /\ report = <<5, 4>>
          /\ cropped_vertices =
                [k \in 1..4 |-> RecordOf(LayoutRGB, ScenarioPoints[IF k < 3 THEN k ELSE k + 1])]

\* a finished crop of a short body that kept a record lying on a bound and
\* dropped another one
C1_Witness ==
    /\ op = "crop" /\ Supported /\ pc = "done" /\ result = "True"
    /\ CompleteRecords < Declared.vertex_count
    /\ Len(cropped_vertices) < CompleteRecords
    /\ \E k \in 1..Len(cropped_vertices) : cropped_vertices[k][1] = x_range[2]

\* C2: a crop that ends with an empty retained set does not report success
\* and leaves the output path as it was; when the file has records and the
\* ranges exclude every one of them it reports "no vertices remain".
C2_EmptyResultWritesNothing ==
    /\ (op = "crop" /\ pc = "done" /\ cropped_vertices = <<>>) =>
          /\ result # "True"
          /\ Untouched
    /\ (op = "crop" /\ pc = "done" /\ Supported /\ x_range # None
          /\ Streamed # <<>>
          /\ \A k \in 1..CompleteRecords : ~InClosedBox(InputRecord(k))) =>
          /\ result = "False"
          /\ message = "Error: No vertices remain after cropping!"
          /\ Untouched

\* a crop of a file with records that kept none, over an existing output
C2_Witness ==
    /\ op = "crop" /\ pc = "done" /\ Supported /\ x_range # None
    /\ Len(Streamed) >= 2
    /\ cropped_vertices = <<>>
    /\ message = "Error: No vertices remain after cropping!"
    /\ output = StaleOutput

\* C3: a file without terminator line makes analyze and crop end with a
\* MalformedHeader failure and nothing written: once a read at end-of-file
\* has come back empty the header reader does not go on to read again.
C3_MissingTerminatorFails ==
    (~HasTerminator(input) /\ eof_reads >= 2) =>
        /\ pc = "done"
        /\ result = "MalformedHeader"
        /\ Untouched

\* C4: the file a successful crop leaves declares as many vertices as were
\* retained, repeats the input's property declarations in order, ends its
\* header with the terminator, and its body is the retained records in
\* order, each in stride bytes, and nothing else.
C4_WrittenFileConsistent ==
    (op = "crop" /\ pc = "done" /\ result = "True") =>
        LET out == parse_ply_header(output.lines)
            w == StrideOf(Declared.properties)
            n == Len(cropped_vertices)
        IN  /\ output.exists
            /\ TerminatorIndex(output.lines, 1) = Len(output.lines)
            /\ out.format_type = LittleEndian
            /\ out.vertex_count = n
            /\ out.properties = Declared.properties
            /\ Len(output.body) = n * w
            /\ \A k \in 1..n :
                  unpack(create_struct_format(out.properties),
                         SubSeq(output.body, (k - 1) * w + 1, k * w)) = cropped_vertices[k]

\* a successful crop that wrote several records with colour bytes but not all
C4_Witness ==
    /\ op = "crop" /\ pc = "done" /\ result = "True"
    /\ Declared.properties = LayoutRGB
    /\ Len(cropped_vertices) >= 2
    /\ Len(cropped_vertices) < Declared.vertex_count
    /\ Len(output.body) = 15 * Len(cropped_vertices)

\* C5: with a declared count of 0 (or no count line) the estimator ends by
\* reporting that no vertices were read, and nothing is written.
C5_ZeroCountIsEmptyDataset ==
    (pc = "done" /\ HasTerminator(input) /\ Declared.vertex_count = 0) =>
        /\ message = "Error: No vertices read"
        /\ result \in {"None", "False"}
        /\ Untouched

\* C6: a header with a field type outside {float, uchar, int, double} fails
\* with UnsupportedFieldType before any record is read or output written.
C6_UnsupportedTypeFailsEarly ==
    (HasTerminator(input) /\ HasUnsupportedType) =>
        /\ body_reads = 0
        /\ out_opens = 0
        /\ pc = "done" => result = "UnsupportedFieldType"

\* C7: a format line naming another encoding than binary little-endian fails
\* with UnsupportedFormat before any record is read or output written.
C7_UnsupportedFormatFailsEarly ==
    (HasTerminator(input) /\ Declared.format_type # LittleEndian) =>
        /\ body_reads = 0
        /\ out_opens = 0
        /\ pc = "done" => result = "UnsupportedFormat"

\* C8: a crop without ranges of a file with at least one record and a complete
\* body retains every record, whatever the count and the sample ceiling.
C8_DefaultRangesKeepAll ==
    (op = "crop" /\ pc = "done" /\ args = <<None, None, None>> /\ Supported
       /\ Declared.vertex_count >= 1
       /\ CompleteRecords >= Declared.vertex_count) =>
        /\ result = "True"
        /\ Len(cropped_vertices) = Declared.vertex_count
        /\ report = <<Declared.vertex_count, Declared.vertex_count>>

\* C9: the retained set the chunk loop produced is the one the loop produces
\* with any other chunk size, 50000 included, short bodies included.
C9_ChunkSizeIndependent ==
    FilterOver =>
        \A c \in (1..(MaxChunk + 1)) \cup {50000} :
            FilterPass(c, 0, 0, <<>>) = cropped_vertices

\* a filter pass of several chunks over a body shorter than declared
C9_Witness ==
    /\ FilterOver /\ Supported
    /\ chunk_size < CompleteRecords
    /\ CompleteRecords < Declared.vertex_count
    /\ Len(cropped_vertices) >= 2

\* C10: every progress line shows the number of records decoded so far and
\* the size of the retained set.
C10_ProgressCountsDecoded ==
    (progress # None) =>
        /\ progress[1] = decoded
        /\ progress[2] = Len(cropped_vertices)

=============================================================================
